---------------------------- MODULE Spec2Model ----------------------------
(***************************************************************************)
(* Model of server.js: the HTTP handlers of the event-management API over  *)
(* a Firestore document store.  Every request is handled by an async       *)
(* function; the code between two awaits runs without interruption, and    *)
(* every awaited store call is one atomic operation of the store.  An      *)
(* action of the model is therefore one store call of one request together *)
(* with the synchronous code that follows it up to the next store call.    *)
(* Every store call may fail, in which case the handler's catch block      *)
(* answers 500.  The parameters of a request (URL ids, body fields) do not *)
(* depend on the store nor on the other requests: the value of each is     *)
(* drawn at the step where the handler first uses it (a start action that  *)
(* only tests whether a field is present takes that as a flag), and a slot *)
(* keeps a value only while the rest of the handler still reads it.        *)
(***************************************************************************)
EXTENDS Integers, FiniteSets, Sequences, TLC

\* ---------------------------------------------------------------- bounds
MaxUsers == 2        \* user document ids are 1..MaxUsers
MaxEvents == 1       \* event document ids are 1..MaxEvents
MaxComments == 1     \* comment document ids are 1..MaxComments
NProcs == 2          \* requests in flight at the same time
MaxTime == 1         \* the clock (new Date()) runs over 0..MaxTime

UserIds == 1..MaxUsers
EventIds == 1..MaxEvents
CommentIds == 1..MaxComments
Procs == 1..NProcs

\* Request field values.  "" stands for an absent or empty field: both are
\* falsy in the handlers' `!field` and `if (field)` tests.
Missing == ""
Usernames == {"ana", "bob"}
Emails == {"a@x", "b@x"}
Passwords == {"pw1", "pw2"}
Texts == {"t1", "t2"}

\* A uid that no user document has.
GhostUid == MaxUsers + 1

\* JavaScript values of a comment's rating: null, or a number.
Null == [t |-> "null"]
Num(n) == [t |-> "num", v |-> n]
Undefined == [t |-> "undefined"]
Ratings == {Null, Num(0), Num(4)}

\* rating || null
OrNull(rating) == IF rating \in {Undefined, Null, Num(0)} THEN Null ELSE rating

Truthy(v) == v # Missing

\* ------------------------------------------------------------- variables
VARIABLES
    users,       \* collection "users": id -> document
    events,      \* collection "events": id -> document
    comments,    \* comments[e]: sub-collection events/e/comments, id -> document
    attendees,   \* attendees[e]: sub-collection events/e/attendees, id -> document
    nextEvent,   \* number of event ids handed out by add()
    nextComment, \* number of comment ids handed out by add()
    now,         \* the clock read by new Date()
    req          \* req[p]: the request handled in slot p

store == <<users, events, comments, attendees>>
vars == <<users, events, comments, attendees, nextEvent, nextComment, now, req>>

\* ------------------------------------------------- the document store API
\* A collection is a function from the ids of its documents to their data.
EmptyColl == [k \in {} |-> 0]

Exists(coll, id) == id \in DOMAIN coll

\* doc(id).set(data): creates or replaces the document.
DocSet(coll, id, data) ==
    [k \in DOMAIN coll \cup {id} |-> IF k = id THEN data ELSE coll[k]]

\* A delete that removes the other documents of the collection.
DocDeleteOthers(coll, id) == [k \in DOMAIN coll \cap {id} |-> coll[k]]

\* doc(id).delete(): removes the document; no error when it is absent.
DocDelete(coll, id) == [k \in DOMAIN coll \ {id} |-> coll[k]]

\* Merge of the fields of `upd` into `data`.
Merge(data, upd) ==
    [f \in DOMAIN data \cup DOMAIN upd |-> IF f \in DOMAIN upd THEN upd[f] ELSE data[f]]

\* doc(id).update(upd) is rejected when the document does not exist or when
\* upd has no field.
UpdateOk(coll, id, upd) == Exists(coll, id) /\ DOMAIN upd # {}

DocUpdate(coll, id, upd) ==
    [k \in DOMAIN coll |-> IF k = id THEN Merge(coll[k], upd) ELSE coll[k]]

\* where("email", "==", email).get(): the ids of the matching documents.
WhereEmail(coll, email) == {k \in DOMAIN coll : coll[k].email = email}

\* snap.docs[0]: a query without orderBy returns documents by ascending id.
FirstDoc(ids) == CHOOSE k \in ids : \A j \in ids : k <= j

\* Every awaited store call either returns or throws.
Outcomes == {"ok", "err"}

\* ------------------------------------------------------- bcrypt and jwt
\* bcrypt.hash: a one-way image of the password (the salt is left out).
Hash(password) == <<"bcrypt", password>>

\* bcrypt.compare(password, hash)
Compare(password, hash) == hash = Hash(password)

\* generateToken({uid, email}): a token signed with JWT_SECRET.
generateToken(uid, email) == [uid |-> uid, email |-> email]

\* The Authorization header of a request: absent, or a bearer token that
\* carries a uid and either verifies or does not.
NoHeader == [kind |-> "none", uid |-> 0, valid |-> FALSE]
Bearer(uid, valid) == [kind |-> "bearer", uid |-> uid, valid |-> valid]

\* Tokens that verify are those the server signed: register and login sign
\* one for the id of a stored user, and user documents are never deleted.
Headers ==
    {NoHeader, Bearer(0, FALSE)} \cup {Bearer(u, TRUE) : u \in DOMAIN users}

\* The middleware without jwt.verify: any bearer header passes.
authenticateTokenUnverified(h) == h.kind = "bearer"

authenticateToken(h) == h.kind = "bearer" /\ h.valid

\* userDoc.exists ? userDoc.data().role : null
RoleOf(uid) == IF Exists(users, uid) THEN users[uid].role ELSE "null"

\* ------------------------------------------------------- request slots
NoArg == [none |-> TRUE]
NoOut == [none |-> TRUE]
Idle == [op |-> "idle", pc |-> "idle", caller |-> 0, arg |-> NoArg,
         status |-> 0, msg |-> "", out |-> NoOut]

\* A slot takes a new request when it holds none or an answered one.
Free(p) == req[p].pc \in {"idle", "done"}

Pending(op, pc, caller, arg) ==
    [op |-> op, pc |-> pc, caller |-> caller, arg |-> arg,
     status |-> 0, msg |-> "", out |-> NoOut]

\* res.status(status).json(...): the request is answered.
Answer(op, status, msg, out) ==
    [op |-> op, pc |-> "done", caller |-> 0, arg |-> NoArg,
     status |-> status, msg |-> msg, out |-> out]

\* catch (e) { res.status(500).json({ error: e.message }) }
Caught(p) == Answer(req[p].op, 500, "error", NoOut)

\* return res.status(403).json(...): the slot keeps who was refused.
Forbidden(op, caller, msg) ==
    [op |-> op, pc |-> "done", caller |-> caller, arg |-> NoArg,
     status |-> 403, msg |-> msg, out |-> NoOut]

\* return res.status(401).json({ message: "Token requerido" | "Token invalido" })
Unauthorized(op) == Answer(op, 401, "Token", NoOut)

At(p, op, pc) == req[p].op = op /\ req[p].pc = pc

Set(p, r) == req' = [req EXCEPT ![p] = r]

Goto(p, pc, caller, arg) == Set(p, Pending(req[p].op, pc, caller, arg))

UNCHANGED_STORE == UNCHANGED <<users, events, comments, attendees, nextEvent, nextComment>>

\* ------------------------------------------------------------------ Init
\* A user document as register writes it, with the role given: roles other
\* than "user" are set by make-admin or by hand in the Firestore console.
UserDoc(username, email, password, role) ==
    [username |-> username, email |-> email, passwordHash |-> Hash(password),
     role |-> role, createdAt |-> 0]

InitStore ==
    /\ events = EmptyColl
    /\ comments = [e \in EventIds |-> EmptyColl]
    /\ attendees = [e \in EventIds |-> EmptyColl]
    /\ nextEvent = 0
    /\ nextComment = 0
    /\ now = 0
    /\ req = [p \in Procs |-> Idle]

\* The identity store starts with one registered user, promoted to admin in
\* the Firestore console (no route creates the first admin).
InitIdentity ==
    /\ users = (1 :> UserDoc("ana", "a@x", "pw1", "admin"))
    /\ InitStore

\* The event aggregate starts with every user id registered: user 1 is the
\* admin, the others have role "user".
InitAggregate ==
    /\ users = [u \in UserIds |->
                  IF u = 1 THEN UserDoc("ana", "a@x", "pw1", "admin")
                  ELSE UserDoc("bob", "b@x", "pw2", "user")]
    /\ InitStore

\* --------------------------------------------------- POST /auth/register
\* The new user document with role admin.
NewUserAsAdmin(username, email, password) ==
    [username |-> username, email |-> email, passwordHash |-> Hash(password),
     role |-> "admin", createdAt |-> now]

NewUser(username, email, password) ==
    [username |-> username, email |-> email, passwordHash |-> Hash(password),
     role |-> "user", createdAt |-> now]

\* collection("users").add(): a generated id that no document has.
FreshUserIds == UserIds \ DOMAIN users

\* if (!username || !email || !password) return 400
\* if (!username || !email || !password) return 400, else on to the query.
RegisterEntry(hasUsername, hasEmail, hasPassword) ==
    IF ~hasUsername \/ ~hasEmail \/ ~hasPassword
    THEN Answer("register", 400, "Faltan campos", NoOut)
    ELSE Pending("register", "query", 0, NoArg)

RegisterStart(p, hasUsername, hasEmail, hasPassword) ==
    /\ Free(p)
    /\ Set(p, RegisterEntry(hasUsername, hasEmail, hasPassword))
    /\ UNCHANGED_STORE /\ UNCHANGED now

\* The query on another field: where("username", "==", email).
EmailTakenByUsername(email) == {k \in DOMAIN users : users[k].username = email} # {}

\* !q.empty
EmailTaken(email) == WhereEmail(users, email) # {}

RegisterQuery(p, o, email) ==
    /\ At(p, "register", "query")
    /\ IF o = "err" THEN Set(p, Caught(p))
       ELSE IF EmailTaken(email)
       THEN Set(p, Answer("register", 400, "Email ya registrado", NoOut))
       ELSE Goto(p, "add", 0, [email |-> email])
    /\ UNCHANGED_STORE /\ UNCHANGED now

RegisterAdd(p, o, id, username, password) ==
    /\ At(p, "register", "add")
    /\ id \in FreshUserIds
    /\ LET email == req[p].arg.email IN
       IF o = "err"
       THEN Set(p, Caught(p)) /\ UNCHANGED users
       ELSE /\ users' = DocSet(users, id, NewUser(username, email, password))
            /\ Set(p, Answer("register", 200, "",
                     [uid |-> id, token |-> generateToken(id, email)]))
    /\ UNCHANGED <<events, comments, attendees, nextEvent, nextComment, now>>

\* ------------------------------------------------------ POST /auth/login
\* if (!email || !password) return 400
LoginStart(p, hasEmail, hasPassword) ==
    /\ Free(p)
    /\ IF ~hasEmail \/ ~hasPassword
       THEN Set(p, Answer("login", 400, "Faltan campos", NoOut))
       ELSE Set(p, Pending("login", "query", 0, NoArg))
    /\ UNCHANGED_STORE /\ UNCHANGED now

\* The answer of login once the query has returned the documents `found`.
LoginAnswer(found, email, password) ==
    IF found = {}
    THEN Answer("login", 400, "Usuario no encontrado", NoOut)
    ELSE LET id == FirstDoc(found) IN
         IF ~Compare(password, users[id].passwordHash)
         THEN Answer("login", 401, "Credenciales invalidas", NoOut)
         ELSE Answer("login", 200, "", [uid |-> id, token |-> generateToken(id, email)])

LoginQuery(p, o, email, password) ==
    /\ At(p, "login", "query")
    /\ IF o = "err" THEN Set(p, Caught(p))
       ELSE Set(p, LoginAnswer(WhereEmail(users, email), email, password))
    /\ UNCHANGED_STORE /\ UNCHANGED now

\* ------------------------------------------------------- PUT /users/:uid
\* const update = {}; if (username) update.username = username;
\* if (email) update.email = email;
ProfileUpdate(username, email) ==
    [f \in {g \in {"username", "email"} :
              Truthy(IF g = "username" THEN username ELSE email)}
       |-> IF f = "username" THEN username ELSE email]

\* The test with the role of an unregistered caller only: callerRole === null.
ProfileDeniedUnregistered(callerUid, targetUid, callerRole) ==
    callerUid # targetUid /\ callerRole = "null"

\* callerUid !== targetUid && callerRole !== "admin"
ProfileDenied(callerUid, targetUid, callerRole) ==
    callerUid # targetUid /\ callerRole # "admin"

ProfileStart(p, h) ==
    /\ Free(p)
    /\ IF ~authenticateToken(h)
       THEN Set(p, Unauthorized("profile"))
       ELSE Set(p, Pending("profile", "role", h.uid, NoArg))
    /\ UNCHANGED_STORE /\ UNCHANGED now

ProfileRole(p, o, target) ==
    /\ At(p, "profile", "role")
    /\ IF o = "err" THEN Set(p, Caught(p))
       ELSE IF ProfileDenied(req[p].caller, target, RoleOf(req[p].caller))
       THEN Set(p, Forbidden("profile", req[p].caller, "Acceso denegado"))
       ELSE Goto(p, "write", 0, [target |-> target])
    /\ UNCHANGED_STORE /\ UNCHANGED now

ProfileWrite(p, o, username, email) ==
    /\ At(p, "profile", "write")
    /\ LET target == req[p].arg.target
           upd == ProfileUpdate(username, email) IN
       IF o = "err" \/ ~UpdateOk(users, target, upd)
       THEN Set(p, Caught(p)) /\ UNCHANGED users
       ELSE users' = DocUpdate(users, target, upd) /\ Goto(p, "read", 0, NoArg)
    /\ UNCHANGED <<events, comments, attendees, nextEvent, nextComment, now>>

ProfileRead(p, o) ==
    /\ At(p, "profile", "read")
    /\ IF o = "err" THEN Set(p, Caught(p))
       ELSE Set(p, Answer("profile", 200, "", NoOut))
    /\ UNCHANGED_STORE /\ UNCHANGED now

\* ---------------------------------------------- PUT /users/:uid/password
\* The synchronous part of the handler without its test of the caller.
PasswordEntryAnyCaller(h, target, hasOld, hasNew) ==
    IF ~authenticateToken(h)
    THEN Unauthorized("password")
    ELSE IF ~hasOld \/ ~hasNew
    THEN Answer("password", 400, "Faltan datos", NoOut)
    ELSE Pending("password", "get", h.uid, [target |-> target])

\* authenticateToken, then
\* if (callerUid !== targetUid) return 403;
\* if (!oldPassword || !newPassword) return 400
\* and on to the first store call.
PasswordEntry(h, target, hasOld, hasNew) ==
    IF ~authenticateToken(h)
    THEN Unauthorized("password")
    ELSE IF h.uid # target
    THEN Forbidden("password", h.uid, "Solo el usuario puede cambiar su contrasena")
    ELSE IF ~hasOld \/ ~hasNew
    THEN Answer("password", 400, "Faltan datos", NoOut)
    ELSE Pending("password", "get", h.uid, [target |-> target])

PasswordStart(p, h, target, hasOld, hasNew) ==
    /\ Free(p)
    /\ Set(p, PasswordEntry(h, target, hasOld, hasNew))
    /\ UNCHANGED_STORE /\ UNCHANGED now

PasswordGet(p, o, oldPassword) ==
    /\ At(p, "password", "get")
    /\ LET target == req[p].arg.target IN
       IF o = "err" THEN Set(p, Caught(p))
       ELSE IF ~Exists(users, target)
       THEN Set(p, Answer("password", 404, "Usuario no encontrado", NoOut))
       ELSE IF ~Compare(oldPassword, users[target].passwordHash)
       THEN Set(p, Answer("password", 401, "Contrasena actual incorrecta", NoOut))
       ELSE Goto(p, "write", req[p].caller, req[p].arg)
    /\ UNCHANGED_STORE /\ UNCHANGED now

PasswordWrite(p, o, newPassword) ==
    /\ At(p, "password", "write")
    /\ LET target == req[p].arg.target
           upd == [passwordHash |-> Hash(newPassword)] IN
       IF o = "err" \/ ~UpdateOk(users, target, upd)
       THEN Set(p, Caught(p)) /\ UNCHANGED users
       ELSE /\ users' = DocUpdate(users, target, upd)
            /\ Set(p, Answer("password", 200, "Contrasena actualizada", NoOut))
    /\ UNCHANGED <<events, comments, attendees, nextEvent, nextComment, now>>

\* ------------------------------------- POST /admin/users/:uid/make-admin
\* Any registered caller passes: role !== null.
requireAnyRole(role) == role # "null"

\* requireAdmin: if (role === "admin") return next(); return 403
requireAdmin(role) == role = "admin"

MakeAdminStart(p, h) ==
    /\ Free(p)
    /\ IF ~authenticateToken(h)
       THEN Set(p, Unauthorized("makeAdmin"))
       ELSE Set(p, Pending("makeAdmin", "role", h.uid, NoArg))
    /\ UNCHANGED_STORE /\ UNCHANGED now

MakeAdminRole(p, o) ==
    /\ At(p, "makeAdmin", "role")
    /\ IF o = "err" THEN Set(p, Caught(p))
       ELSE IF requireAdmin(RoleOf(req[p].caller))
       THEN Goto(p, "write", 0, NoArg)
       ELSE Set(p, Forbidden("makeAdmin", req[p].caller, "Requiere permiso de administrador"))
    /\ UNCHANGED_STORE /\ UNCHANGED now

MakeAdminWrite(p, o, target) ==
    /\ At(p, "makeAdmin", "write")
    /\ LET upd == [role |-> "admin"] IN
       IF o = "err" \/ ~UpdateOk(users, target, upd)
       THEN Set(p, Caught(p)) /\ UNCHANGED users
       ELSE /\ users' = DocUpdate(users, target, upd)
            /\ Set(p, Answer("makeAdmin", 200, "Usuario promovido a admin", NoOut))
    /\ UNCHANGED <<events, comments, attendees, nextEvent, nextComment, now>>

\* ---------------------------------------------------------- POST /events
\* userDoc.exists ? userDoc.data().username : "Desconocido"
UsernameOf(uid) == IF Exists(users, uid) THEN users[uid].username ELSE "Desconocido"

NewEvent(title, date, location, description, creatorUid, creatorName) ==
    [title |-> title, date |-> date, location |-> location,
     description |-> description, creatorUid |-> creatorUid,
     creatorName |-> creatorName, createdAt |-> now]

\* if (!title || !date || !location || !description || !creatorUid) return 400
CreateEventStart(p, h, hasFields) ==
    /\ Free(p)
    /\ IF ~authenticateToken(h)
       THEN Set(p, Unauthorized("createEvent"))
       ELSE IF ~hasFields
       THEN Set(p, Answer("createEvent", 400, "Faltan campos", NoOut))
       ELSE Set(p, Pending("createEvent", "creator", h.uid, NoArg))
    /\ UNCHANGED_STORE /\ UNCHANGED now

\* The creator is the creatorUid of the request body.
CreateEventCreator(p, o, creatorUid) ==
    /\ At(p, "createEvent", "creator")
    /\ IF o = "err" THEN Set(p, Caught(p))
       ELSE IF ~Exists(users, creatorUid)
       THEN Set(p, Answer("createEvent", 404, "Usuario creador no encontrado", NoOut))
       ELSE Goto(p, "add", req[p].caller,
                 [creatorUid |-> creatorUid, creatorName |-> users[creatorUid].username])
    /\ UNCHANGED_STORE /\ UNCHANGED now

CreateEventAdd(p, o, title, date, location, description) ==
    /\ At(p, "createEvent", "add")
    /\ nextEvent < MaxEvents
    /\ LET id == nextEvent + 1
           a == req[p].arg IN
       IF o = "err"
       THEN Set(p, Caught(p)) /\ UNCHANGED <<events, nextEvent>>
       ELSE /\ events' = DocSet(events, id, NewEvent(title, date, location, description,
                                                     a.creatorUid, a.creatorName))
            /\ nextEvent' = id
            /\ Set(p, Answer("createEvent", 200, "", [id |-> id]))
    /\ UNCHANGED <<users, comments, attendees, nextComment, now>>

\* ------------------------------------------------------- PUT /events/:id
\* The owner taken from the creatorUid of the request body.
EventDeniedByBody(storedCreatorUid, bodyCreatorUid, callerUid, callerRole) ==
    bodyCreatorUid # callerUid /\ callerRole # "admin"

\* event.creatorUid !== callerUid && callerRole !== "admin": the owner is the
\* creatorUid of the stored event; a creatorUid of the request body is not read.
EventDenied(storedCreatorUid, bodyCreatorUid, callerUid, callerRole) ==
    storedCreatorUid # callerUid /\ callerRole # "admin"

\* The update object with every field of the body, absent ones included.
EventUpdateEveryField(title, date, location, description) ==
    [title |-> title, date |-> date, location |-> location, description |-> description]

\* const update = {}; if (title) update.title = title; ...
EventUpdate(title, date, location, description) ==
    LET given == [title |-> title, date |-> date, location |-> location,
                  description |-> description]
    IN  [f \in {g \in DOMAIN given : Truthy(given[g])} |-> given[f]]

UpdateEventStart(p, h) ==
    /\ Free(p)
    /\ IF ~authenticateToken(h)
       THEN Set(p, Unauthorized("updateEvent"))
       ELSE Set(p, Pending("updateEvent", "get", h.uid, NoArg))
    /\ UNCHANGED_STORE /\ UNCHANGED now

UpdateEventGet(p, o, id) ==
    /\ At(p, "updateEvent", "get")
    /\ IF o = "err" THEN Set(p, Caught(p))
       ELSE IF ~Exists(events, id)
       THEN Set(p, Answer("updateEvent", 404, "Evento no encontrado", NoOut))
       ELSE Goto(p, "role", req[p].caller, [id |-> id, creatorUid |-> events[id].creatorUid])
    /\ UNCHANGED_STORE /\ UNCHANGED now

UpdateEventRole(p, o, bodyCreatorUid) ==
    /\ At(p, "updateEvent", "role")
    /\ IF o = "err" THEN Set(p, Caught(p))
       ELSE IF EventDenied(req[p].arg.creatorUid, bodyCreatorUid, req[p].caller,
                           RoleOf(req[p].caller))
       THEN Set(p, Forbidden("updateEvent", req[p].caller, "Solo el creador o admin puede editar"))
       ELSE Goto(p, "write", 0, [id |-> req[p].arg.id])
    /\ UNCHANGED_STORE /\ UNCHANGED now

\* The write done as doc(id).set(update, { merge: true }): an absent document
\* is created with the fields of the update.
UpdateEventWriteUpsert(p, o, title, date, location, description) ==
    /\ At(p, "updateEvent", "write")
    /\ LET id == req[p].arg.id
           upd == EventUpdate(title, date, location, description) IN
       IF o = "err"
       THEN Set(p, Caught(p)) /\ UNCHANGED events
       ELSE /\ events' = IF Exists(events, id) THEN DocUpdate(events, id, upd)
                         ELSE DocSet(events, id, upd)
            /\ Goto(p, "read", 0, NoArg)
    /\ UNCHANGED <<users, comments, attendees, nextEvent, nextComment, now>>

UpdateEventWrite(p, o, title, date, location, description) ==
    /\ At(p, "updateEvent", "write")
    /\ LET id == req[p].arg.id
           upd == EventUpdate(title, date, location, description) IN
       IF o = "err" \/ ~UpdateOk(events, id, upd)
       THEN Set(p, Caught(p)) /\ UNCHANGED events
       ELSE events' = DocUpdate(events, id, upd) /\ Goto(p, "read", 0, NoArg)
    /\ UNCHANGED <<users, comments, attendees, nextEvent, nextComment, now>>

UpdateEventRead(p, o) ==
    /\ At(p, "updateEvent", "read")
    /\ IF o = "err" THEN Set(p, Caught(p))
       ELSE Set(p, Answer("updateEvent", 200, "", NoOut))
    /\ UNCHANGED_STORE /\ UNCHANGED now

\* ---------------------------------------------------- DELETE /events/:id
DeleteEventStart(p, h) ==
    /\ Free(p)
    /\ IF ~authenticateToken(h)
       THEN Set(p, Unauthorized("deleteEvent"))
       ELSE Set(p, Pending("deleteEvent", "get", h.uid, NoArg))
    /\ UNCHANGED_STORE /\ UNCHANGED now

DeleteEventGet(p, o, id) ==
    /\ At(p, "deleteEvent", "get")
    /\ IF o = "err" THEN Set(p, Caught(p))
       ELSE IF ~Exists(events, id)
       THEN Set(p, Answer("deleteEvent", 404, "Evento no encontrado", NoOut))
       ELSE Goto(p, "role", req[p].caller, [id |-> id, creatorUid |-> events[id].creatorUid])
    /\ UNCHANGED_STORE /\ UNCHANGED now

DeleteEventRole(p, o, bodyCreatorUid) ==
    /\ At(p, "deleteEvent", "role")
    /\ IF o = "err" THEN Set(p, Caught(p))
       ELSE IF EventDenied(req[p].arg.creatorUid, bodyCreatorUid, req[p].caller,
                           RoleOf(req[p].caller))
       THEN Set(p, Forbidden("deleteEvent", req[p].caller, "Solo el creador o admin puede eliminar"))
       ELSE Goto(p, "comments", 0, [id |-> req[p].arg.id])
    /\ UNCHANGED_STORE /\ UNCHANGED now

\* commentsSnap: the comments of the event at the time of the read.
DeleteEventComments(p, o) ==
    /\ At(p, "deleteEvent", "comments")
    /\ LET id == req[p].arg.id IN
       IF o = "err" THEN Set(p, Caught(p))
       ELSE Goto(p, "attendees", 0, [id |-> id, cs |-> DOMAIN comments[id]])
    /\ UNCHANGED_STORE /\ UNCHANGED now

\* attendeesSnap: the attendance records of the event at the time of the read.
DeleteEventAttendees(p, o) ==
    /\ At(p, "deleteEvent", "attendees")
    /\ LET a == req[p].arg IN
       IF o = "err" THEN Set(p, Caught(p))
       ELSE Goto(p, "commit", 0, [id |-> a.id, cs |-> a.cs, as |-> DOMAIN attendees[a.id]])
    /\ UNCHANGED_STORE /\ UNCHANGED now

\* batch.delete(ref) of every ref of `ids`, as batch.commit() applies them.
BatchDelete(coll, ids) == [k \in DOMAIN coll \ ids |-> coll[k]]

\* Deletes sent one by one, the comments first: a failure after them leaves
\* the comments deleted.
CommitCommentsOneByOne(o, id, cs) == [comments EXCEPT ![id] = BatchDelete(@, cs)]

\* batch.commit(): all the writes of the batch take effect, or none does.
CommitEvents(o, id) == IF o = "ok" THEN BatchDelete(events, {id}) ELSE events
CommitComments(o, id, cs) ==
    IF o = "ok" THEN [comments EXCEPT ![id] = BatchDelete(@, cs)] ELSE comments
CommitAttendees(o, id, as) ==
    IF o = "ok" THEN [attendees EXCEPT ![id] = BatchDelete(@, as)] ELSE attendees

DeleteEventCommit(p, o) ==
    /\ At(p, "deleteEvent", "commit")
    /\ LET a == req[p].arg IN
       /\ events' = CommitEvents(o, a.id)
       /\ comments' = CommitComments(o, a.id, a.cs)
       /\ attendees' = CommitAttendees(o, a.id, a.as)
       /\ IF o = "err" THEN Set(p, Caught(p))
          ELSE Set(p, Answer("deleteEvent", 200, "Evento eliminado", [id |-> a.id]))
    /\ UNCHANGED <<users, nextEvent, nextComment, now>>

\* ------------------------------------------- POST /events/:id/comments
NewComment(uid, username, comment, rating) ==
    [uid |-> uid, username |-> username, comment |-> comment,
     rating |-> OrNull(rating), createdAt |-> now, editedAt |-> Undefined]

\* if (!comment) return 400
AddCommentStart(p, h, hasComment) ==
    /\ Free(p)
    /\ IF ~authenticateToken(h)
       THEN Set(p, Unauthorized("addComment"))
       ELSE IF ~hasComment
       THEN Set(p, Answer("addComment", 400, "Falta comment", NoOut))
       ELSE Set(p, Pending("addComment", "user", h.uid, NoArg))
    /\ UNCHANGED_STORE /\ UNCHANGED now

AddCommentUser(p, o) ==
    /\ At(p, "addComment", "user")
    /\ IF o = "err" THEN Set(p, Caught(p))
       ELSE Goto(p, "add", req[p].caller, [username |-> UsernameOf(req[p].caller)])
    /\ UNCHANGED_STORE /\ UNCHANGED now

\* The comment is added under the event id of the URL, whether or not an
\* event document has that id.
AddCommentAdd(p, o, eventId, comment, rating) ==
    /\ At(p, "addComment", "add")
    /\ nextComment < MaxComments
    /\ LET cid == nextComment + 1 IN
       IF o = "err"
       THEN Set(p, Caught(p)) /\ UNCHANGED <<comments, nextComment>>
       ELSE /\ comments' = [comments EXCEPT ![eventId] =
                   DocSet(@, cid, NewComment(req[p].caller, req[p].arg.username,
                                             comment, rating))]
            /\ nextComment' = cid
            /\ Set(p, Answer("addComment", 200, "", [id |-> cid]))
    /\ UNCHANGED <<users, events, attendees, nextEvent, now>>

\* --------------------------------------- PUT /events/:id/comments/:cid
\* The role test inverted: callerRole === "admin".
CommentDeniedInverted(authorUid, callerUid, callerRole) ==
    authorUid # callerUid /\ callerRole = "admin"

\* data.uid !== uid, and then callerRole !== "admin"
CommentDenied(authorUid, callerUid, callerRole) ==
    authorUid # callerUid /\ callerRole # "admin"

\* if (comment) update.comment = comment;
\* if (rating !== undefined) update.rating = rating; editedAt
CommentUpdate(comment, rating) ==
    LET given == [comment |-> comment, rating |-> rating, editedAt |-> Num(now)]
        kept == {g \in DOMAIN given :
                   CASE g = "comment" -> Truthy(comment)
                     [] g = "rating" -> rating # Undefined
                     [] OTHER -> TRUE}
    IN  [f \in kept |-> given[f]]

UpdateCommentStart(p, h) ==
    /\ Free(p)
    /\ IF ~authenticateToken(h)
       THEN Set(p, Unauthorized("updateComment"))
       ELSE Set(p, Pending("updateComment", "get", h.uid, NoArg))
    /\ UNCHANGED_STORE /\ UNCHANGED now

\* After the read of the comment: 404, or the role read when the caller is
\* not the author, or the write.
UpdateCommentGet(p, o, eventId, cid) ==
    /\ At(p, "updateComment", "get")
    /\ IF o = "err" THEN Set(p, Caught(p))
       ELSE IF ~Exists(comments[eventId], cid)
       THEN Set(p, Answer("updateComment", 404, "Comentario no encontrado", NoOut))
       ELSE IF comments[eventId][cid].uid # req[p].caller
       THEN Goto(p, "role", req[p].caller,
                 [eventId |-> eventId, cid |-> cid, uid |-> comments[eventId][cid].uid])
       ELSE Goto(p, "write", 0, [eventId |-> eventId, cid |-> cid])
    /\ UNCHANGED_STORE /\ UNCHANGED now

UpdateCommentRole(p, o) ==
    /\ At(p, "updateComment", "role")
    /\ LET a == req[p].arg IN
       IF o = "err" THEN Set(p, Caught(p))
       ELSE IF CommentDenied(a.uid, req[p].caller, RoleOf(req[p].caller))
       THEN Set(p, Forbidden("updateComment", req[p].caller, "Solo autor o admin puede editar"))
       ELSE Goto(p, "write", 0, [eventId |-> a.eventId, cid |-> a.cid])
    /\ UNCHANGED_STORE /\ UNCHANGED now

UpdateCommentWrite(p, o, comment, rating) ==
    /\ At(p, "updateComment", "write")
    /\ LET a == req[p].arg
           upd == CommentUpdate(comment, rating) IN
       IF o = "err" \/ ~UpdateOk(comments[a.eventId], a.cid, upd)
       THEN Set(p, Caught(p)) /\ UNCHANGED comments
       ELSE /\ comments' = [comments EXCEPT ![a.eventId] = DocUpdate(@, a.cid, upd)]
            /\ Goto(p, "read", 0, NoArg)
    /\ UNCHANGED <<users, events, attendees, nextEvent, nextComment, now>>

UpdateCommentRead(p, o) ==
    /\ At(p, "updateComment", "read")
    /\ IF o = "err" THEN Set(p, Caught(p))
       ELSE Set(p, Answer("updateComment", 200, "", NoOut))
    /\ UNCHANGED_STORE /\ UNCHANGED now

\* ------------------------------------ DELETE /events/:id/comments/:cid
DeleteCommentStart(p, h) ==
    /\ Free(p)
    /\ IF ~authenticateToken(h)
       THEN Set(p, Unauthorized("deleteComment"))
       ELSE Set(p, Pending("deleteComment", "get", h.uid, NoArg))
    /\ UNCHANGED_STORE /\ UNCHANGED now

DeleteCommentGet(p, o, eventId, cid) ==
    /\ At(p, "deleteComment", "get")
    /\ IF o = "err" THEN Set(p, Caught(p))
       ELSE IF ~Exists(comments[eventId], cid)
       THEN Set(p, Answer("deleteComment", 404, "Comentario no encontrado", NoOut))
       ELSE IF comments[eventId][cid].uid # req[p].caller
       THEN Goto(p, "role", req[p].caller,
                 [eventId |-> eventId, cid |-> cid, uid |-> comments[eventId][cid].uid])
       ELSE Goto(p, "delete", 0, [eventId |-> eventId, cid |-> cid])
    /\ UNCHANGED_STORE /\ UNCHANGED now

\* The handler with docRef.delete() issued before the role is looked up.
DeleteCommentRoleAfterDelete(p, o) ==
    /\ At(p, "deleteComment", "role")
    /\ LET a == req[p].arg IN
       IF o = "err" THEN Set(p, Caught(p)) /\ UNCHANGED comments
       ELSE /\ comments' = [comments EXCEPT ![a.eventId] = DocDelete(@, a.cid)]
            /\ IF CommentDenied(a.uid, req[p].caller, RoleOf(req[p].caller))
               THEN Set(p, Forbidden("deleteComment", req[p].caller,
                                     "Solo autor o admin puede eliminar"))
               ELSE Set(p, Answer("deleteComment", 200, "Comentario eliminado", NoOut))
    /\ UNCHANGED <<users, events, attendees, nextEvent, nextComment, now>>

DeleteCommentRole(p, o) ==
    /\ At(p, "deleteComment", "role")
    /\ LET a == req[p].arg IN
       IF o = "err" THEN Set(p, Caught(p))
       ELSE IF CommentDenied(a.uid, req[p].caller, RoleOf(req[p].caller))
       THEN Set(p, Forbidden("deleteComment", req[p].caller, "Solo autor o admin puede eliminar"))
       ELSE Goto(p, "delete", 0, [eventId |-> a.eventId, cid |-> a.cid])
    /\ UNCHANGED_STORE /\ UNCHANGED now

DeleteCommentDelete(p, o) ==
    /\ At(p, "deleteComment", "delete")
    /\ LET a == req[p].arg IN
       IF o = "err"
       THEN Set(p, Caught(p)) /\ UNCHANGED comments
       ELSE /\ comments' = [comments EXCEPT ![a.eventId] = DocDelete(@, a.cid)]
            /\ Set(p, Answer("deleteComment", 200, "Comentario eliminado", NoOut))
    /\ UNCHANGED <<users, events, attendees, nextEvent, nextComment, now>>

\* ----------------------------------------- POST /attend/:eventId/confirm
\* A generated id, as add() would give the attendance document.
AttendeeAutoId(coll, uid) ==
    CHOOSE k \in 1..(Cardinality(DOMAIN coll) + 1) : k \notin DOMAIN coll

\* The id of the attendance document: doc(uid).
AttendeeDocId(coll, uid) == uid

Attendance(uid, username) ==
    [uid |-> uid, username |-> username, confirmed |-> TRUE, updatedAt |-> now]

ConfirmStart(p, h) ==
    /\ Free(p)
    /\ IF ~authenticateToken(h)
       THEN Set(p, Unauthorized("confirm"))
       ELSE Set(p, Pending("confirm", "user", h.uid, NoArg))
    /\ UNCHANGED_STORE /\ UNCHANGED now

ConfirmUser(p, o) ==
    /\ At(p, "confirm", "user")
    /\ IF o = "err" THEN Set(p, Caught(p))
       ELSE Goto(p, "set", req[p].caller, [username |-> UsernameOf(req[p].caller)])
    /\ UNCHANGED_STORE /\ UNCHANGED now

\* The answered slot also records for which uid and event the set was made
\* (the response body itself carries only the message).
ConfirmSet(p, o, eventId) ==
    /\ At(p, "confirm", "set")
    /\ LET uid == req[p].caller IN
       IF o = "err"
       THEN Set(p, Caught(p)) /\ UNCHANGED attendees
       ELSE /\ attendees' = [attendees EXCEPT ![eventId] =
                   DocSet(@, AttendeeDocId(@, uid), Attendance(uid, req[p].arg.username))]
            /\ Set(p, Answer("confirm", 200, "Asistencia confirmada",
                             [uid |-> uid, eventId |-> eventId]))
    /\ UNCHANGED <<users, events, comments, nextEvent, nextComment, now>>

\* ------------------------------------------ POST /attend/:eventId/cancel
CancelStart(p, h) ==
    /\ Free(p)
    /\ IF ~authenticateToken(h)
       THEN Set(p, Unauthorized("cancel"))
       ELSE Set(p, Pending("cancel", "delete", h.uid, NoArg))
    /\ UNCHANGED_STORE /\ UNCHANGED now

CancelDelete(p, o, eventId) ==
    /\ At(p, "cancel", "delete")
    /\ IF o = "err"
       THEN Set(p, Caught(p)) /\ UNCHANGED attendees
       ELSE /\ attendees' = [attendees EXCEPT ![eventId] = DocDelete(@, req[p].caller)]
            /\ Set(p, Answer("cancel", 200, "Asistencia cancelada", NoOut))
    /\ UNCHANGED <<users, events, comments, nextEvent, nextComment, now>>

\* ------------------------------------------------ GET /events/:id/rating
\* A rating that is a JSON string: the handlers store whatever the body holds.
Str(s) == [t |-> "str", s |-> s]

\* Not a number, as Number("abc") and every sum with it.
NaN == [t |-> "nan"]

\* The strings that Number() reads as a number, with that number.
NumericStrings == ("5" :> 5)

\* filter(Boolean): null, undefined, 0 and "" are dropped.
IsTruthy(r) == r \notin {Null, Undefined, Num(0), Str("")}

\* Number(r)
ToNumber(r) ==
    IF r.t = "num" THEN r
    ELSE IF r.t = "str" /\ r.s \in DOMAIN NumericStrings THEN Num(NumericStrings[r.s])
    ELSE NaN

\* s + Number(r)
Plus(s, r) ==
    IF s = NaN \/ ToNumber(r) = NaN THEN NaN ELSE Num(s.v + ToNumber(r).v)

\* ratings.reduce((s, r) => s + Number(r), 0) over the documents `ids`.
RECURSIVE SumRatings(_, _)
SumRatings(coll, ids) ==
    IF ids = {} THEN Num(0)
    ELSE LET k == CHOOSE j \in ids : TRUE IN
         Plus(SumRatings(coll, ids \ {k}), coll[k].rating)

\* sum / ratings.length: the quotient, kept as a fraction, or NaN.
Quotient(sum, n) == IF sum = NaN THEN NaN ELSE [t |-> "ratio", num |-> sum.v, den |-> n]

\* if (ratings.length === 0) return { average: 0, count: 0 };
\* else { average: sum / ratings.length, count: ratings.length }
AverageRating(coll) ==
    LET rated == {k \in DOMAIN coll : IsTruthy(coll[k].rating)}
        n == Cardinality(rated) IN
    IF n = 0 THEN [average |-> Num(0), count |-> 0]
    ELSE [average |-> Quotient(SumRatings(coll, rated), n), count |-> n]

\* The route has no middleware.
RatingStart(p) ==
    /\ Free(p)
    /\ Set(p, Pending("rating", "get", 0, NoArg))
    /\ UNCHANGED_STORE /\ UNCHANGED now

RatingGet(p, o, eventId) ==
    /\ At(p, "rating", "get")
    /\ IF o = "err" THEN Set(p, Caught(p))
       ELSE Set(p, Answer("rating", 200, "", AverageRating(comments[eventId])))
    /\ UNCHANGED_STORE /\ UNCHANGED now

\* ---------------------------------------------------- GET /events/search
\* Searched texts are sequences of letters.
Letters == {"A", "a", "B", "b"}
LowerOf == ("A" :> "a") @@ ("a" :> "a") @@ ("B" :> "b") @@ ("b" :> "b")

\* A text left as it is.
toLowerCaseUnchanged(s) == s

\* s.toLowerCase()
toLowerCase(s) == [i \in 1..Len(s) |-> LowerOf[s[i]]]

\* s.includes(q)
includes(s, q) ==
    \E i \in 0..(Len(s) - Len(q)) : SubSeq(s, i + 1, i + Len(q)) = q

\* req.query.q: absent, or a text (possibly empty).
NoQuery == [present |-> FALSE]
Query(s) == [present |-> TRUE, s |-> s]

\* const q = (req.query.q || "").toString().toLowerCase()
SearchText(query) == toLowerCase(IF query.present THEN query.s ELSE <<>>)

\* title.includes(q) || desc.includes(q), on the lowercased title and description
SearchMatch(ev, q) ==
    \/ includes(toLowerCase(ev.title), q)
    \/ includes(toLowerCase(ev.description), q)

\* snap.docs.map(...).filter(...)
SearchResult(coll, q) ==
    [id \in {e \in DOMAIN coll : SearchMatch(coll[e], q)} |-> coll[id]]

\* if (!q) return res.status(400)
SearchStart(p, query) ==
    /\ Free(p)
    /\ LET q == SearchText(query) IN
       IF q = <<>>
       THEN Set(p, Answer("search", 400, "query q requerido", NoOut))
       ELSE Set(p, Pending("search", "get", 0, [query |-> query, q |-> q]))
    /\ UNCHANGED_STORE /\ UNCHANGED now

SearchGet(p, o) ==
    /\ At(p, "search", "get")
    /\ IF o = "err" THEN Set(p, Caught(p))
       ELSE Set(p, Answer("search", 200, "", SearchResult(events, req[p].arg.q)))
    /\ UNCHANGED_STORE /\ UNCHANGED now

\* ------------------------------------- GET /attend/:eventId/status/:uid
\* !!value
ToBoolean(v) == v # FALSE

\* if (!doc.exists) return res.json({ confirmed: false });
\* res.json({ confirmed: !!doc.data().confirmed, ...doc.data() }): the fields
\* of the document come last and override.
StatusAnswer(coll, uid) ==
    IF ~Exists(coll, uid)
    THEN [confirmed |-> FALSE]
    ELSE Merge([confirmed |-> ToBoolean(coll[uid].confirmed)], coll[uid])

\* The route has no middleware: any client may ask for any event and uid.
StatusStart(p) ==
    /\ Free(p)
    /\ Set(p, Pending("status", "get", 0, NoArg))
    /\ UNCHANGED_STORE /\ UNCHANGED now

StatusGet(p, o, eventId, uid) ==
    /\ At(p, "status", "get")
    /\ IF o = "err" THEN Set(p, Caught(p))
       ELSE Set(p, Answer("status", 200, "", StatusAnswer(attendees[eventId], uid)))
    /\ UNCHANGED_STORE /\ UNCHANGED now

\* --------------------------------------------------------------- clock
Tick ==
    /\ now < MaxTime
    /\ now' = now + 1
    /\ UNCHANGED_STORE /\ UNCHANGED req

\* ------------------------------------------------- identity specification
OptUsernames == Usernames \cup {Missing}
OptEmails == Emails \cup {Missing}

NextIdentity ==
    \/ \E p \in Procs, u \in BOOLEAN, e \in BOOLEAN, w \in BOOLEAN :
          RegisterStart(p, u, e, w)
    \/ \E p \in Procs, o \in Outcomes, e \in Emails : RegisterQuery(p, o, e)
    \/ \E p \in Procs, o \in Outcomes, id \in UserIds, u \in Usernames, w \in Passwords :
          RegisterAdd(p, o, id, u, w)
    \/ \E p \in Procs, e \in BOOLEAN, w \in BOOLEAN : LoginStart(p, e, w)
    \/ \E p \in Procs, o \in Outcomes, e \in Emails, w \in Passwords : LoginQuery(p, o, e, w)
    \/ \E p \in Procs, h \in Headers : ProfileStart(p, h)
    \/ \E p \in Procs, o \in Outcomes, t \in UserIds : ProfileRole(p, o, t)
    \/ \E p \in Procs, o \in Outcomes, u \in OptUsernames, e \in OptEmails :
          ProfileWrite(p, o, u, e)
    \/ \E p \in Procs, o \in Outcomes : ProfileRead(p, o)
    \/ \E p \in Procs, h \in Headers, t \in UserIds, w \in BOOLEAN, n \in BOOLEAN :
          PasswordStart(p, h, t, w, n)
    \/ \E p \in Procs, o \in Outcomes, w \in Passwords : PasswordGet(p, o, w)
    \/ \E p \in Procs, o \in Outcomes, n \in Passwords : PasswordWrite(p, o, n)
    \/ \E p \in Procs, h \in Headers : MakeAdminStart(p, h)
    \/ \E p \in Procs, o \in Outcomes : MakeAdminRole(p, o)
    \/ \E p \in Procs, o \in Outcomes, t \in UserIds : MakeAdminWrite(p, o, t)

SpecIdentity == InitIdentity /\ [][NextIdentity]_vars

\* ------------------------------------------------ aggregate specification
\* The life of an event and of its sub-collections: create and delete of the
\* event, comments added, attendance confirmed and cancelled.
CreateEventSteps(texts) ==
    \/ \E p \in Procs, h \in Headers, f \in BOOLEAN : CreateEventStart(p, h, f)
    \/ \E p \in Procs, o \in Outcomes, c \in UserIds \cup {GhostUid} :
          CreateEventCreator(p, o, c)
    \/ \E p \in Procs, o \in Outcomes, t \in texts : CreateEventAdd(p, o, t, "d1", "l1", "x1")

DeleteEventSteps ==
    \/ \E p \in Procs, h \in Headers : DeleteEventStart(p, h)
    \/ \E p \in Procs, o \in Outcomes, id \in EventIds : DeleteEventGet(p, o, id)
    \/ \E p \in Procs, o \in Outcomes, b \in UserIds \cup {0} : DeleteEventRole(p, o, b)
    \/ \E p \in Procs, o \in Outcomes : DeleteEventComments(p, o)
    \/ \E p \in Procs, o \in Outcomes : DeleteEventAttendees(p, o)
    \/ \E p \in Procs, o \in Outcomes : DeleteEventCommit(p, o)

AddCommentSteps(texts, ratings) ==
    \/ \E p \in Procs, h \in Headers, f \in BOOLEAN : AddCommentStart(p, h, f)
    \/ \E p \in Procs, o \in Outcomes : AddCommentUser(p, o)
    \/ \E p \in Procs, o \in Outcomes, e \in EventIds, t \in texts, r \in ratings :
          AddCommentAdd(p, o, e, t, r)

ConfirmSteps ==
    \/ \E p \in Procs, h \in Headers : ConfirmStart(p, h)
    \/ \E p \in Procs, o \in Outcomes : ConfirmUser(p, o)
    \/ \E p \in Procs, o \in Outcomes, e \in EventIds : ConfirmSet(p, o, e)

CancelSteps ==
    \/ \E p \in Procs, h \in Headers : CancelStart(p, h)
    \/ \E p \in Procs, o \in Outcomes, e \in EventIds : CancelDelete(p, o, e)

NextAggregate ==
    \/ CreateEventSteps({"t1"})
    \/ DeleteEventSteps
    \/ AddCommentSteps({"t1"}, {Undefined})
    \/ ConfirmSteps
    \/ CancelSteps

SpecAggregate == InitAggregate /\ [][NextAggregate]_vars

\* ---------------------------------------------- attendance specification
\* Attendance confirmed and cancelled while events are created and deleted
\* and the clock advances.
NextAttendance ==
    \/ CreateEventSteps({"t1"})
    \/ DeleteEventSteps
    \/ ConfirmSteps
    \/ CancelSteps
    \/ Tick

SpecAttendance == InitAggregate /\ [][NextAttendance]_vars

\* --------------------------------------------------- status specification
\* The attendance status asked for while attendance is confirmed and
\* cancelled and events are created and deleted.
StatusSteps ==
    \/ \E p \in Procs : StatusStart(p)
    \/ \E p \in Procs, o \in Outcomes, e \in EventIds, u \in UserIds : StatusGet(p, o, e, u)

NextStatus ==
    \/ CreateEventSteps({"t1"})
    \/ DeleteEventSteps
    \/ ConfirmSteps
    \/ CancelSteps
    \/ StatusSteps

SpecStatus == InitAggregate /\ [][NextStatus]_vars

\* ----------------------------------------- authorization specifications
OptTexts(texts) == texts \cup {Missing}

UpdateEventSteps(texts) ==
    \/ \E p \in Procs, h \in Headers : UpdateEventStart(p, h)
    \/ \E p \in Procs, o \in Outcomes, id \in EventIds : UpdateEventGet(p, o, id)
    \/ \E p \in Procs, o \in Outcomes, b \in UserIds \cup {0} : UpdateEventRole(p, o, b)
    \/ \E p \in Procs, o \in Outcomes, t \in OptTexts(texts), d \in {Missing, "d1"} :
          UpdateEventWrite(p, o, t, d, Missing, Missing)
    \/ \E p \in Procs, o \in Outcomes : UpdateEventRead(p, o)

UpdateCommentSteps(texts, ratings) ==
    \/ \E p \in Procs, h \in Headers : UpdateCommentStart(p, h)
    \/ \E p \in Procs, o \in Outcomes, e \in EventIds, c \in CommentIds :
          UpdateCommentGet(p, o, e, c)
    \/ \E p \in Procs, o \in Outcomes : UpdateCommentRole(p, o)
    \/ \E p \in Procs, o \in Outcomes, t \in OptTexts(texts), r \in ratings :
          UpdateCommentWrite(p, o, t, r)
    \/ \E p \in Procs, o \in Outcomes : UpdateCommentRead(p, o)

DeleteCommentSteps ==
    \/ \E p \in Procs, h \in Headers : DeleteCommentStart(p, h)
    \/ \E p \in Procs, o \in Outcomes, e \in EventIds, c \in CommentIds :
          DeleteCommentGet(p, o, e, c)
    \/ \E p \in Procs, o \in Outcomes : DeleteCommentRole(p, o)
    \/ \E p \in Procs, o \in Outcomes : DeleteCommentDelete(p, o)

\* Events updated and deleted by their creator, an admin or another user,
\* while comments and attendance records are added to them.
NextEventAuthz ==
    \/ CreateEventSteps({"t1"})
    \/ UpdateEventSteps({"t2"})
    \/ DeleteEventSteps
    \/ AddCommentSteps({"t1"}, {Undefined})
    \/ ConfirmSteps

SpecEventAuthz == InitAggregate /\ [][NextEventAuthz]_vars

\* Comments updated and deleted by their author, an admin or another user
\* (the creator of the event among them).
NextCommentAuthz ==
    \/ CreateEventSteps({"t1"})
    \/ AddCommentSteps({"t1"}, {Undefined})
    \/ UpdateCommentSteps({"t2"}, {Undefined, Num(4)})
    \/ DeleteCommentSteps

SpecCommentAuthz == InitAggregate /\ [][NextCommentAuthz]_vars

\* --------------------------------------------------- rating specification
\* The average rating asked for while comments are added and updated with
\* the ratings a JSON body can hold: absent, null, a number, a string.
RatingSteps ==
    \/ \E p \in Procs : RatingStart(p)
    \/ \E p \in Procs, o \in Outcomes, e \in EventIds : RatingGet(p, o, e)

BodyRatings == {Undefined, Null, Num(0), Num(3), Num(5), Str("5"), Str("abc")}

NextRating ==
    \/ AddCommentSteps({"t1"}, BodyRatings)
    \/ UpdateCommentSteps({"t1"}, BodyRatings)
    \/ RatingSteps

SpecRating == InitAggregate /\ [][NextRating]_vars

\* -------------------------------------------------- search specification
\* Events the store holds when the server starts, under ids of their own.
MaxStored == 2
StoredEventIds == (MaxEvents + 1)..(MaxEvents + MaxStored)

SearchTitles == {<<"A", "b">>, <<"b", "b">>}
SearchDescriptions == {<<"b", "A">>, <<"B">>}
Queries ==
    {NoQuery, Query(<<>>), Query(<<"a">>), Query(<<"a", "B">>), Query(<<"B", "a">>),
     Query(<<"a", "a">>)}

StoredEvent(title, description) ==
    [title |-> title, date |-> "d1", location |-> "l1", description |-> description,
     creatorUid |-> 1, creatorName |-> "ana", createdAt |-> 0]

InitSearch ==
    /\ users = [u \in UserIds |->
                  IF u = 1 THEN UserDoc("ana", "a@x", "pw1", "admin")
                  ELSE UserDoc("bob", "b@x", "pw2", "user")]
    /\ \E ids \in SUBSET StoredEventIds :
          events \in [ids -> {StoredEvent(<<"A", "b">>, <<"B">>),
                              StoredEvent(<<"b", "b">>, <<"b", "A">>)}]
    /\ comments = [e \in EventIds |-> EmptyColl]
    /\ attendees = [e \in EventIds |-> EmptyColl]
    /\ nextEvent = 0
    /\ nextComment = 0
    /\ now = 0
    /\ req = [p \in Procs |-> Idle]

NextSearch ==
    \/ \E p \in Procs, h \in Headers, f \in BOOLEAN : CreateEventStart(p, h, f)
    \/ \E p \in Procs, o \in Outcomes : CreateEventCreator(p, o, 1)
    \/ \E p \in Procs, o \in Outcomes, t \in SearchTitles, x \in SearchDescriptions :
          CreateEventAdd(p, o, t, "d1", "l1", x)
    \/ DeleteEventSteps
    \/ \E p \in Procs, query \in Queries : SearchStart(p, query)
    \/ \E p \in Procs, o \in Outcomes : SearchGet(p, o)

SpecSearch == InitSearch /\ [][NextSearch]_vars

\* ------------------------------------------------ lifecycle specification
\* One event is stored when the server starts; it is updated, commented,
\* attended and deleted while other events are created.
LifecycleEventIds == 1..(MaxEvents + 1)

InitLifecycle ==
    /\ users = [u \in UserIds |->
                  IF u = 1 THEN UserDoc("ana", "a@x", "pw1", "admin")
                  ELSE UserDoc("bob", "b@x", "pw2", "user")]
    /\ events = ((MaxEvents + 1) :> StoredEvent("t1", "x1"))
    /\ comments = [e \in LifecycleEventIds |-> EmptyColl]
    /\ attendees = [e \in LifecycleEventIds |-> EmptyColl]
    /\ nextEvent = 0
    /\ nextComment = 0
    /\ now = 0
    /\ req = [p \in Procs |-> Idle]

NextLifecycle ==
    \/ \E p \in Procs, h \in Headers, f \in BOOLEAN : CreateEventStart(p, h, f)
    \/ \E p \in Procs, o \in Outcomes : CreateEventCreator(p, o, 1)
    \/ \E p \in Procs, o \in Outcomes : CreateEventAdd(p, o, "t1", "d1", "l1", "x1")
    \/ \E p \in Procs, h \in Headers : UpdateEventStart(p, h)
    \/ \E p \in Procs, o \in Outcomes, id \in LifecycleEventIds : UpdateEventGet(p, o, id)
    \/ \E p \in Procs, o \in Outcomes : UpdateEventRole(p, o, 0)
    \/ \E p \in Procs, o \in Outcomes : UpdateEventWrite(p, o, "t2", Missing, Missing, Missing)
    \/ \E p \in Procs, o \in Outcomes : UpdateEventRead(p, o)
    \/ \E p \in Procs, h \in Headers : DeleteEventStart(p, h)
    \/ \E p \in Procs, o \in Outcomes, id \in LifecycleEventIds : DeleteEventGet(p, o, id)
    \/ \E p \in Procs, o \in Outcomes : DeleteEventRole(p, o, 0)
    \/ \E p \in Procs, o \in Outcomes : DeleteEventComments(p, o)
    \/ \E p \in Procs, o \in Outcomes : DeleteEventAttendees(p, o)
    \/ \E p \in Procs, o \in Outcomes : DeleteEventCommit(p, o)
    \/ \E p \in Procs, h \in Headers, f \in BOOLEAN : AddCommentStart(p, h, f)
    \/ \E p \in Procs, o \in Outcomes : AddCommentUser(p, o)
    \/ \E p \in Procs, o \in Outcomes : AddCommentAdd(p, o, MaxEvents + 1, "t1", Undefined)
    \/ \E p \in Procs, h \in Headers : ConfirmStart(p, h)
    \/ \E p \in Procs, o \in Outcomes : ConfirmUser(p, o)
    \/ \E p \in Procs, o \in Outcomes : ConfirmSet(p, o, MaxEvents + 1)

SpecLifecycle == InitLifecycle /\ [][NextLifecycle]_vars

\* ----------------------------------------------------- role specification
\* The identity routes on a store whose one user is an admin and on a store
\* whose one user is not.
InitEitherRole ==
    /\ \E r \in {"user", "admin"} : users = (1 :> UserDoc("ana", "a@x", "pw1", r))
    /\ InitStore

NextRoles ==
    \/ \E p \in Procs, u \in BOOLEAN, e \in BOOLEAN, w \in BOOLEAN :
          RegisterStart(p, u, e, w)
    \/ \E p \in Procs, o \in Outcomes, e \in Emails : RegisterQuery(p, o, e)
    \/ \E p \in Procs, o \in Outcomes, id \in UserIds : RegisterAdd(p, o, id, "bob", "pw2")
    \/ \E p \in Procs, h \in Headers : ProfileStart(p, h)
    \/ \E p \in Procs, o \in Outcomes, t \in UserIds : ProfileRole(p, o, t)
    \/ \E p \in Procs, o \in Outcomes, u \in {Missing, "bob"} : ProfileWrite(p, o, u, Missing)
    \/ \E p \in Procs, o \in Outcomes : ProfileRead(p, o)
    \/ \E p \in Procs, h \in Headers, t \in UserIds, w \in BOOLEAN, n \in BOOLEAN :
          PasswordStart(p, h, t, w, n)
    \/ \E p \in Procs, o \in Outcomes, w \in Passwords : PasswordGet(p, o, w)
    \/ \E p \in Procs, o \in Outcomes : PasswordWrite(p, o, "pw1")
    \/ \E p \in Procs, h \in Headers : MakeAdminStart(p, h)
    \/ \E p \in Procs, o \in Outcomes : MakeAdminRole(p, o)
    \/ \E p \in Procs, o \in Outcomes, t \in UserIds : MakeAdminWrite(p, o, t)

SpecRoles == InitEitherRole /\ [][NextRoles]_vars

\* ---------------------------------------------- event-frame specification
\* Events updated with any subset of their four fields while they are
\* created and deleted, usernames change and the clock advances.
UpdateBodies ==
    { <<Missing, Missing, Missing, Missing>>, <<"t2", Missing, Missing, Missing>>,
      <<Missing, "d2", "l2", Missing>>, <<"t2", "d2", "l2", "x2">> }

NextEventFrame ==
    \/ CreateEventSteps({"t1"})
    \/ \E p \in Procs, h \in Headers : UpdateEventStart(p, h)
    \/ \E p \in Procs, o \in Outcomes, id \in EventIds : UpdateEventGet(p, o, id)
    \/ \E p \in Procs, o \in Outcomes : UpdateEventRole(p, o, 0)
    \/ \E p \in Procs, o \in Outcomes, b \in UpdateBodies :
          UpdateEventWrite(p, o, b[1], b[2], b[3], b[4])
    \/ \E p \in Procs, o \in Outcomes : UpdateEventRead(p, o)
    \/ DeleteEventSteps
    \/ \E p \in Procs, h \in Headers : ProfileStart(p, h)
    \/ \E p \in Procs, o \in Outcomes, t \in UserIds : ProfileRole(p, o, t)
    \/ \E p \in Procs, o \in Outcomes : ProfileWrite(p, o, "eve", Missing)
    \/ \E p \in Procs, o \in Outcomes : ProfileRead(p, o)
    \/ Tick

SpecEventFrame == InitAggregate /\ [][NextEventFrame]_vars

\* -------------------------------------------------- serial specification
\* Every route of the API that writes to the store, the requests arriving
\* one after another: the first slot handles them, the others stay idle.
Serving == {1}

NextRoutes ==
    \/ \E p \in Serving, u \in BOOLEAN, e \in BOOLEAN, w \in BOOLEAN :
          RegisterStart(p, u, e, w)
    \/ \E p \in Serving, o \in Outcomes, e \in Emails : RegisterQuery(p, o, e)
    \/ \E p \in Serving, o \in Outcomes, id \in UserIds : RegisterAdd(p, o, id, "bob", "pw2")
    \/ \E p \in Serving, e \in BOOLEAN, w \in BOOLEAN : LoginStart(p, e, w)
    \/ \E p \in Serving, o \in Outcomes, e \in Emails : LoginQuery(p, o, e, "pw1")
    \/ \E p \in Serving, h \in Headers : ProfileStart(p, h)
    \/ \E p \in Serving, o \in Outcomes, t \in UserIds : ProfileRole(p, o, t)
    \/ \E p \in Serving, o \in Outcomes, u \in {Missing, "bob"} : ProfileWrite(p, o, u, Missing)
    \/ \E p \in Serving, o \in Outcomes : ProfileRead(p, o)
    \/ \E p \in Serving, h \in Headers, t \in UserIds, w \in BOOLEAN, n \in BOOLEAN :
          PasswordStart(p, h, t, w, n)
    \/ \E p \in Serving, o \in Outcomes, w \in Passwords : PasswordGet(p, o, w)
    \/ \E p \in Serving, o \in Outcomes : PasswordWrite(p, o, "pw1")
    \/ \E p \in Serving, h \in Headers : MakeAdminStart(p, h)
    \/ \E p \in Serving, o \in Outcomes : MakeAdminRole(p, o)
    \/ \E p \in Serving, o \in Outcomes, t \in UserIds : MakeAdminWrite(p, o, t)
    \/ \E p \in Serving, h \in Headers, f \in BOOLEAN : CreateEventStart(p, h, f)
    \/ \E p \in Serving, o \in Outcomes, c \in UserIds \cup {GhostUid} :
          CreateEventCreator(p, o, c)
    \/ \E p \in Serving, o \in Outcomes : CreateEventAdd(p, o, "t1", "d1", "l1", "x1")
    \/ \E p \in Serving, h \in Headers : UpdateEventStart(p, h)
    \/ \E p \in Serving, o \in Outcomes, id \in EventIds : UpdateEventGet(p, o, id)
    \/ \E p \in Serving, o \in Outcomes : UpdateEventRole(p, o, 0)
    \/ \E p \in Serving, o \in Outcomes, t \in {Missing, "t1"} :
          UpdateEventWrite(p, o, t, Missing, Missing, Missing)
    \/ \E p \in Serving, o \in Outcomes : UpdateEventRead(p, o)
    \/ \E p \in Serving, h \in Headers : DeleteEventStart(p, h)
    \/ \E p \in Serving, o \in Outcomes, id \in EventIds : DeleteEventGet(p, o, id)
    \/ \E p \in Serving, o \in Outcomes : DeleteEventRole(p, o, 0)
    \/ \E p \in Serving, o \in Outcomes : DeleteEventComments(p, o)
    \/ \E p \in Serving, o \in Outcomes : DeleteEventAttendees(p, o)
    \/ \E p \in Serving, o \in Outcomes : DeleteEventCommit(p, o)
    \/ \E p \in Serving, h \in Headers, f \in BOOLEAN : AddCommentStart(p, h, f)
    \/ \E p \in Serving, o \in Outcomes : AddCommentUser(p, o)
    \/ \E p \in Serving, o \in Outcomes, e \in EventIds : AddCommentAdd(p, o, e, "t1", Undefined)
    \/ \E p \in Serving, h \in Headers : UpdateCommentStart(p, h)
    \/ \E p \in Serving, o \in Outcomes, e \in EventIds, c \in CommentIds :
          UpdateCommentGet(p, o, e, c)
    \/ \E p \in Serving, o \in Outcomes : UpdateCommentRole(p, o)
    \/ \E p \in Serving, o \in Outcomes : UpdateCommentWrite(p, o, "t1", Undefined)
    \/ \E p \in Serving, o \in Outcomes : UpdateCommentRead(p, o)
    \/ \E p \in Serving, h \in Headers : DeleteCommentStart(p, h)
    \/ \E p \in Serving, o \in Outcomes, e \in EventIds, c \in CommentIds :
          DeleteCommentGet(p, o, e, c)
    \/ \E p \in Serving, o \in Outcomes : DeleteCommentRole(p, o)
    \/ \E p \in Serving, o \in Outcomes : DeleteCommentDelete(p, o)
    \/ \E p \in Serving, h \in Headers : ConfirmStart(p, h)
    \/ \E p \in Serving, o \in Outcomes : ConfirmUser(p, o)
    \/ \E p \in Serving, o \in Outcomes, e \in EventIds : ConfirmSet(p, o, e)
    \/ \E p \in Serving, h \in Headers : CancelStart(p, h)
    \/ \E p \in Serving, o \in Outcomes, e \in EventIds : CancelDelete(p, o, e)

SpecSerial == InitIdentity /\ [][NextRoutes]_vars

\* ===================================================================
\* Properties
\* ===================================================================
\* Slot p holds the answer `status` of a request `op`.
Answered(p, op, status) == req[p].op = op /\ req[p].pc = "done" /\ req[p].status = status

\* The step is taken by the handler running in slot p.
StepOf(p) == req[p].pc \notin {"idle", "done"} /\ req'[p] # req[p]

\* The ids of the attendance records of event e that carry the uid u.
RecordsOf(coll, u) == {k \in DOMAIN coll : coll[k].uid = u}

\* C1 (first half): the attendees of an event hold at most one record per user.
AtMostOneAttendance ==
    \A e \in EventIds, u \in UserIds : Cardinality(RecordsOf(attendees[e], u)) <= 1

\* C1 (second half): the write of confirm(u, e), when the store accepts it,
\* leaves exactly one record for (u, e), and it has confirmed = true.
ConfirmLeavesOne ==
    \A p \in Procs, e \in EventIds :
        ConfirmSet(p, "ok", e) =>
            LET mine == RecordsOf(attendees'[e], req[p].caller) IN
            /\ Cardinality(mine) = 1
            /\ \A k \in mine : attendees'[e][k].confirmed = TRUE

\* C1: under every interleaving of confirm and cancel requests (concurrent
\* confirms of one user included) an event holds at most one attendance
\* record per user, and a confirm that completes leaves exactly one record
\* for its user, with confirmed = true, whether or not one existed before.
C1_OneAttendancePerUser == []AtMostOneAttendance /\ [][ConfirmLeavesOne]_vars

\* C1 witness: both slots have answered a confirm of the same user for the
\* same event, the later one after the clock advanced, and one record is left.
C1_Witness ==
    \E e \in EventIds, u \in UserIds :
        /\ \A p \in Procs : Answered(p, "confirm", 200) /\ req[p].out = [uid |-> u, eventId |-> e]
        /\ Cardinality(RecordsOf(attendees[e], u)) = 1
        /\ u \in DOMAIN attendees[e] /\ attendees[e][u].updatedAt > 0

\* C2: whenever a DELETE /events/e has answered success, event e is absent
\* and no comment and no attendance record is stored under e.
C2_DeleteLeavesNoChildren ==
    \A p \in Procs :
        Answered(p, "deleteEvent", 200) =>
            LET e == req[p].out.id IN
            /\ ~Exists(events, e)
            /\ DOMAIN comments[e] = {}
            /\ DOMAIN attendees[e] = {}

\* C3: a step of the DELETE /events/e handler either leaves the event, the
\* comments and the attendance records as they were (a store failure
\* included), or removes the event document together with every comment and
\* attendance record the handler collected, and nothing else.
C3_DeleteIsAtomic ==
    [][\A p \in Procs :
         (req[p].op = "deleteEvent" /\ StepOf(p)) =>
            \/ <<events, comments, attendees>>' = <<events, comments, attendees>>
            \/ /\ req[p].pc = "commit"
               /\ LET a == req[p].arg IN
                  /\ DOMAIN events' = DOMAIN events \ {a.id}
                  /\ DOMAIN comments'[a.id] = DOMAIN comments[a.id] \ a.cs
                  /\ DOMAIN attendees'[a.id] = DOMAIN attendees[a.id] \ a.as
                  /\ \A e \in EventIds \ {a.id} :
                        comments'[e] = comments[e] /\ attendees'[e] = attendees[e]]_vars

\* C3 witness: a delete has committed a batch that held a comment and an
\* attendance record, and the event and both are gone.
C3_Witness ==
    \E p \in Procs :
        /\ Answered(p, "deleteEvent", 200)
        /\ ~Exists(events, req[p].out.id)
        /\ nextComment > 0
        /\ \A e \in EventIds : DOMAIN comments[e] = {} /\ DOMAIN attendees[e] = {}
        /\ \E q \in Procs : Answered(q, "confirm", 200)

\* The owner-or-admin decision, stated from the stored documents.
Allowed(ownerUid, callerUid) == callerUid = ownerUid \/ RoleOf(callerUid) = "admin"

\* The step is the role read of an event handler in slot p, the event is
\* still stored, and the store call returns.
EventDecision(p) ==
    /\ req[p].op \in {"updateEvent", "deleteEvent"}
    /\ req[p].pc = "role"
    /\ StepOf(p)
    /\ Exists(events, req[p].arg.id)
    /\ req'[p].status # 500

\* C4: PUT and DELETE /events/:id of a stored event pass the authorization
\* when the caller is the stored creatorUid or has role admin, whatever
\* creatorUid the body carries, and then answer 200 unless a store call
\* throws; every other caller is answered 403 with events, comments and
\* attendance records unchanged; 403 is answered in no other case.
C4_EventOwnerOrAdmin ==
    [][\A p \in Procs :
         LET r == req[p]
             n == req'[p] IN
         /\ EventDecision(p) =>
               IF Allowed(events[r.arg.id].creatorUid, r.caller)
               THEN n.pc = (IF r.op = "updateEvent" THEN "write" ELSE "comments")
               ELSE /\ n = Forbidden(r.op, r.caller, n.msg)
                    /\ <<users, events, comments, attendees>>' =
                           <<users, events, comments, attendees>>
         /\ (r.op \in {"updateEvent", "deleteEvent"} /\ StepOf(p)) =>
               /\ n.status = 403 =>
                     r.pc = "role" /\ ~Allowed(r.arg.creatorUid, r.caller)
               /\ r.pc \notin {"get", "role"} => n.status \in {0, 200, 500}
               /\ (r.op = "deleteEvent" /\ n.status = 200) => ~Exists(events', r.arg.id)
               /\ (r.op = "updateEvent" /\ r.pc = "write" /\ n.pc = "read") =>
                     /\ Exists(events', r.arg.id)
                     /\ events'[r.arg.id].creatorUid = events[r.arg.id].creatorUid]_vars

\* C4 witness: an update of an event was refused to a user who is neither its
\* creator nor an admin, the event has a comment and an attendance record,
\* and another update of it has been written.
C4_Witness ==
    \E p \in Procs, e \in DOMAIN events :
        /\ Answered(p, "updateEvent", 403)
        /\ req[p].caller # events[e].creatorUid
        /\ events[e].title = "t2"
        /\ DOMAIN comments[e] # {}
        /\ DOMAIN attendees[e] # {}

\* The step is a step of a comment handler in slot p.
CommentStep(p) == req[p].op \in {"updateComment", "deleteComment"} /\ StepOf(p)

\* C5: a comment is updated or deleted only by a handler whose caller is the
\* stored author of the comment or has role admin; every other caller, the
\* creator of the event included, is answered 403 and the comments are
\* unchanged.
C5_CommentAuthorOrAdmin ==
    [][\A p \in Procs :
         LET r == req[p]
             n == req'[p]
             writes == {"write", "delete"} IN
         CommentStep(p) =>
            /\ comments' # comments => r.pc \in writes
            /\ (n.pc \in writes /\ r.pc \notin writes) =>
                  \/ /\ r.pc = "get"
                     /\ Exists(comments[n.arg.eventId], n.arg.cid)
                     /\ comments[n.arg.eventId][n.arg.cid].uid = r.caller
                  \/ r.pc = "role" /\ RoleOf(r.caller) = "admin"
            /\ (r.pc = "role" /\ n.status # 500) =>
                  /\ r.arg.uid # r.caller
                  /\ IF RoleOf(r.caller) = "admin"
                     THEN n.pc \in writes
                     ELSE n = Forbidden(r.op, r.caller, n.msg) /\ comments' = comments
            /\ n.status = 403 => r.pc = "role"]_vars

\* C5 witness: the creator of an event, who is no admin, was refused the
\* update of a comment of that event written by another user, and the
\* comment is stored as it was written.
C5_Witness ==
    \E p \in Procs, e \in DOMAIN events, c \in CommentIds :
        /\ Answered(p, "updateComment", 403)
        /\ events[e].creatorUid = req[p].caller
        /\ RoleOf(req[p].caller) # "admin"
        /\ c \in DOMAIN comments[e]
        /\ comments[e][c].uid # req[p].caller
        /\ comments[e][c].editedAt = Undefined

\* ------------------------------------------------------------ identity
\* Slot p takes a request for operation op in this step.
StartOf(p, op) == Free(p) /\ req'[p] # req[p] /\ req'[p].op = op

\* The step changes the stored passwordHash of user u.
HashChanges(u) == users'[u].passwordHash # users[u].passwordHash

\* What the password handler answers before its first store call, for every
\* request it can receive: a caller other than the target is refused with
\* 403 whatever their role, and only the target goes on to the store.
PasswordEntryOwnerOnly ==
    \A h \in Headers, t \in UserIds, o \in BOOLEAN, n \in BOOLEAN :
        authenticateToken(h) =>
           LET r == PasswordEntry(h, t, o, n) IN
           /\ h.uid # t => r.status = 403 /\ r.pc = "done" /\ r.caller = h.uid
           /\ r.pc = "get" => h.uid = t /\ r.arg.target = t

\* C6: the passwordHash of a user changes only at the write of a PUT
\* /users/:uid/password of that user; that handler refuses a caller other
\* than the target (an admin too) with 403, reaches its write only when the
\* oldPassword matches the stored hash and answers 401 otherwise, and the
\* refusals leave the users unchanged.
C6_PasswordOnlyByOwner ==
    /\ []PasswordEntryOwnerOnly
    /\ [][/\ \A u \in DOMAIN users :
              HashChanges(u) =>
                 \E p \in Procs : At(p, "password", "write") /\ StepOf(p)
                                  /\ req[p].arg.target = u /\ req[p].caller = u
          /\ \A p \in Procs :
              /\ StartOf(p, "password") =>
                    /\ users' = users
                    /\ req'[p].pc \in {"get", "done"}
                    /\ req'[p].pc = "get" => req'[p].caller = req'[p].arg.target
              /\ (req'[p].op = "password" /\ req'[p].pc = "write" /\ req'[p] # req[p]) =>
                    At(p, "password", "get")
              /\ (At(p, "password", "get") /\ StepOf(p)) =>
                    \A w \in Passwords :
                       (PasswordGet(p, "ok", w) /\ Exists(users, req[p].arg.target)) =>
                          IF Compare(w, users[req[p].arg.target].passwordHash)
                          THEN /\ req'[p].pc = "write" /\ req'[p].arg = req[p].arg
                               /\ req'[p].caller = req[p].caller
                          ELSE req'[p].status = 401 /\ users' = users
              /\ (req'[p].op = "password" /\ req'[p].status \in {401, 403}
                    /\ req'[p] # req[p]) => users' = users]_vars

\* C6 witness: a user changed their own password while a password request
\* of a caller for another user's uid was refused with 403.
C6_Witness ==
    \E p, q \in Procs, u \in DOMAIN users :
        /\ Answered(p, "password", 200)
        /\ Answered(q, "password", 403)
        /\ req[q].caller # u
        /\ RoleOf(req[q].caller) = "admin"
        /\ users[u].passwordHash = Hash("pw1")
        /\ users[u].email = "b@x"

\* C7: no two user documents hold the same email.
C7_EmailUnique ==
    \A u, v \in DOMAIN users : u # v => users[u].email # users[v].email

\* What the register handler answers before its first store call: 400 when
\* any of username, email and password is missing.
RegisterEntryRefusesMissing ==
    \A u \in BOOLEAN, e \in BOOLEAN, w \in BOOLEAN :
        LET r == RegisterEntry(u, e, w) IN
        IF u /\ e /\ w THEN r.pc = "query" ELSE r.pc = "done" /\ r.status = 400

\* C8: a register request with a field missing is answered 400; one whose
\* email a stored user has is answered 400; neither creates a user.  One
\* whose email no stored user has goes on to add exactly one user document,
\* with role user, under an id no user had, and answers that id and a token
\* for that id and email.
C8_Register ==
    /\ []RegisterEntryRefusesMissing
    /\ [][/\ \A p \in Procs : StartOf(p, "register") =>
               /\ users' = users
               /\ req'[p].pc = "query" \/ req'[p].status = 400
          /\ \A p \in Procs : (At(p, "register", "query") /\ StepOf(p)) =>
               \A e \in Emails :
               RegisterQuery(p, "ok", e) =>
                  IF \E k \in DOMAIN users : users[k].email = e
                  THEN req'[p].status = 400 /\ req'[p].pc = "done" /\ users' = users
                  ELSE req'[p].pc = "add" /\ req'[p].arg.email = e
          /\ \A p \in Procs : (At(p, "register", "add") /\ StepOf(p)) =>
               \A id \in UserIds, u \in Usernames, w \in Passwords :
               RegisterAdd(p, "ok", id, u, w) =>
                  /\ id \notin DOMAIN users
                  /\ DOMAIN users' = DOMAIN users \cup {id}
                  /\ \A k \in DOMAIN users : users'[k] = users[k]
                  /\ users'[id].role = "user"
                  /\ users'[id].email = req[p].arg.email
                  /\ req'[p].status = 200
                  /\ req'[p].out = [uid |-> id,
                                    token |-> [uid |-> id, email |-> req[p].arg.email]]
          /\ \A p \in Procs :
               (req[p].op = "register" /\ StepOf(p) /\ users' # users) =>
                  req[p].pc = "add" /\ req'[p].status = 200]_vars

\* C8 witness: one registration has created a user with role user and
\* another was refused because its email was stored.
C8_Witness ==
    \E p, q \in Procs :
        /\ Answered(p, "register", 200)
        /\ req[p].out.uid \in DOMAIN users
        /\ users[req[p].out.uid].role = "user"
        /\ users[req[p].out.uid].email = req[p].out.token.email
        /\ Answered(q, "register", 400)
        /\ req[q].msg = "Email ya registrado"

\* C9: login answers success exactly when some stored user has the email and
\* a passwordHash that the password matches, and then with the id of a
\* stored user; without a user of that email it answers not found, and with
\* one but no match 401; a login step changes nothing in the store.
C9_Login ==
    [][\A p \in Procs : (At(p, "login", "query") /\ StepOf(p)) =>
         \A e \in Emails, w \in Passwords :
         LoginQuery(p, "ok", e, w) =>
            LET having == {k \in DOMAIN users : users[k].email = e}
                matching == {k \in having : Compare(w, users[k].passwordHash)} IN
            /\ req'[p].status = 200 <=> matching # {}
            /\ req'[p].status = 200 => req'[p].out.uid \in matching
            /\ having = {} =>
                  req'[p].status = 400 /\ req'[p].msg = "Usuario no encontrado"
            /\ (having # {} /\ matching = {}) => req'[p].status = 401
            /\ <<users, events, comments, attendees>>' =
                   <<users, events, comments, attendees>>]_vars

\* The step changes the stored role of user u.
RoleChanges(u) == users'[u].role # users[u].role

\* C10: the role of a user changes only at the write of a make-admin request
\* that passed the admin check (its caller had role admin when the check
\* read it), and only to admin; a make-admin of a caller without role admin
\* is answered 403 and changes no user; an admin stays admin.
C10_RoleOnlyByAdmin ==
    [][/\ \A u \in DOMAIN users :
            /\ RoleChanges(u) =>
                  /\ users'[u].role = "admin"
                  /\ \E p \in Procs : At(p, "makeAdmin", "write") /\ StepOf(p)
            /\ users[u].role = "admin" => users'[u].role = "admin"
       /\ \A p \in Procs :
            (req[p].op = "makeAdmin" /\ StepOf(p)) =>
               /\ (req[p].pc = "role" /\ req'[p].status # 500) =>
                     IF RoleOf(req[p].caller) = "admin"
                     THEN req'[p].pc = "write"
                     ELSE /\ req'[p] = Forbidden("makeAdmin", req[p].caller, req'[p].msg)
                          /\ users' = users
               /\ (req'[p].pc = "write" /\ req[p].pc # "write") =>
                     req[p].pc = "role" /\ RoleOf(req[p].caller) = "admin"
               /\ req'[p].status = 403 => users' = users]_vars

\* C10 witness: a make-admin of a caller without role admin was refused and
\* a make-admin of an admin has promoted a user registered with role user.
C10_Witness ==
    \E p, q \in Procs, u \in DOMAIN users :
        /\ Answered(p, "makeAdmin", 200)
        /\ Answered(q, "makeAdmin", 403)
        /\ u # 1 /\ users[u].role = "admin"

\* ------------------------------------------------------------- profile
\* The step changes the username or the email of the stored user u.
ProfileChanges(u) ==
    users'[u].username # users[u].username \/ users'[u].email # users[u].email

\* C11: the username and email of a stored user change only at the write of
\* a PUT /users/:uid for that user; the handler reaches its write only when
\* the caller is the target or has role admin, and answers every other caller
\* 403 with the users unchanged; the write sets the username and the email
\* that the request supplies and nothing else of the target (role,
\* passwordHash and createdAt stay), and no other user.
C11_ProfileOwnerOrAdmin ==
    [][/\ \A u \in DOMAIN users :
            ProfileChanges(u) =>
               \E p \in Procs : At(p, "profile", "write") /\ StepOf(p)
                                /\ req[p].arg.target = u
       /\ \A p \in Procs :
            /\ (At(p, "profile", "role") /\ StepOf(p)) =>
                  \A t \in UserIds :
                     ProfileRole(p, "ok", t) =>
                        IF req[p].caller = t \/ RoleOf(req[p].caller) = "admin"
                        THEN req'[p].pc = "write" /\ req'[p].arg.target = t
                        ELSE /\ req'[p] = Forbidden("profile", req[p].caller, req'[p].msg)
                             /\ users' = users
            /\ (req'[p].op = "profile" /\ req'[p].pc = "write" /\ req'[p] # req[p]) =>
                  At(p, "profile", "role")
            /\ (req[p].op = "profile" /\ StepOf(p) /\ req[p].pc # "write") =>
                  users' = users
            /\ (At(p, "profile", "write") /\ StepOf(p)) =>
                  LET t == req[p].arg.target IN
                  /\ DOMAIN users' = DOMAIN users
                  /\ \A k \in DOMAIN users \ {t} : users'[k] = users[k]
                  /\ t \in DOMAIN users =>
                        /\ users'[t].role = users[t].role
                        /\ users'[t].passwordHash = users[t].passwordHash
                        /\ users'[t].createdAt = users[t].createdAt
                        /\ DOMAIN users'[t] = DOMAIN users[t]
                  /\ \A u \in OptUsernames, e \in OptEmails :
                        (ProfileWrite(p, "ok", u, e) /\ req'[p].pc = "read") =>
                           /\ users'[t].username = (IF u = Missing THEN users[t].username ELSE u)
                           /\ users'[t].email = (IF e = Missing THEN users[t].email ELSE e)]_vars

\* C11 witness: a user without role admin was refused the update of another
\* user's profile, and a permitted update has changed the username of user 1.
C11_Witness ==
    \E p, q \in Procs :
        /\ Answered(p, "profile", 403)
        /\ RoleOf(req[p].caller) = "user"
        /\ Answered(q, "profile", 200)
        /\ users[1].username = "bob"
        /\ users[1].email = "a@x"

\* ------------------------------------------------------- every route
\* The headers the claim is about: none, or a bearer token that fails
\* verification.
Unauthenticated == {h \in Headers : h.kind # "bearer" \/ ~h.valid}

\* Slot p takes a request with header h for one of the routes behind
\* authenticateToken.
AuthenticatedStart(p, h) ==
    LET op == req'[p].op IN
    \/ op = "profile" /\ ProfileStart(p, h)
    \/ op = "password" /\ \E t \in UserIds, o \in BOOLEAN, n \in BOOLEAN :
                             PasswordStart(p, h, t, o, n)
    \/ op = "makeAdmin" /\ MakeAdminStart(p, h)
    \/ op = "createEvent" /\ \E f \in BOOLEAN : CreateEventStart(p, h, f)
    \/ op = "updateEvent" /\ UpdateEventStart(p, h)
    \/ op = "deleteEvent" /\ DeleteEventStart(p, h)
    \/ op = "addComment" /\ \E f \in BOOLEAN : AddCommentStart(p, h, f)
    \/ op = "updateComment" /\ UpdateCommentStart(p, h)
    \/ op = "deleteComment" /\ DeleteCommentStart(p, h)
    \/ op = "confirm" /\ ConfirmStart(p, h)
    \/ op = "cancel" /\ CancelStart(p, h)

\* The request that slot p takes is answered 401 and nothing is written.
Refused401(p) ==
    /\ req'[p].status = 401 /\ req'[p].pc = "done"
    /\ <<users, events, comments, attendees>>' = <<users, events, comments, attendees>>

\* C12: a request without bearer token, or with one that fails verification,
\* for profile update, password change, event create, update or delete,
\* comment create, update or delete, attendance confirm or cancel, or
\* make-admin is answered 401 at once and the store is unchanged.
C12_UnauthenticatedRefused ==
    [][\A p \in Procs :
         (Free(p) /\ req'[p] # req[p]) =>
            \/ Refused401(p)
            \/ \A h \in Unauthenticated : ~AuthenticatedStart(p, h)]_vars

\* C12 witness: a delete of an event without verified token was answered
\* 401 and the event, with a comment and an attendance record, is stored.
C12_Witness ==
    \E p \in Procs, e \in DOMAIN events :
        /\ req[p] = Unauthorized("deleteEvent")
        /\ DOMAIN comments[e] # {}
        /\ DOMAIN attendees[e] # {}

\* The step of the handler in slot p writes to the store.
Writes(p) ==
    StepOf(p) /\ <<users, events, comments, attendees>>' # <<users, events, comments, attendees>>

\* C13: a step that answers 400, 401, 403 or 404 leaves users, events,
\* comments and attendance records unchanged, and the request has written
\* nothing before it: a handler past its write only reads the document
\* back, and then answers 200 or 500.
C13_NoWriteOnRefusal ==
    [][\A p \in Procs :
         /\ (req'[p] # req[p] /\ req'[p].status \in {400, 401, 403, 404}) =>
               /\ <<users, events, comments, attendees>>' =
                      <<users, events, comments, attendees>>
               /\ req[p].pc # "read"
         /\ Writes(p) =>
               \/ req'[p].status = 200
               \/ req'[p].pc = "read"
         /\ (StepOf(p) /\ req'[p].pc = "read") => req[p].pc = "write"
         /\ (StepOf(p) /\ req[p].pc = "read") =>
               /\ req'[p].status \in {200, 500}
               /\ ~Writes(p)]_vars

\* C13 witness: a comment delete was refused with 403 to a user who is not
\* its author, and the comment is stored.
C13_Witness ==
    \E p \in Procs, e \in EventIds, c \in CommentIds :
        /\ Answered(p, "deleteComment", 403)
        /\ c \in DOMAIN comments[e]
        /\ comments[e][c].uid # req[p].caller
        /\ \E u \in DOMAIN users : users[u].passwordHash # Hash("pw1") \/ u # 1

StatusNow(e, u) == StatusAnswer(attendees[e], u)
StatusNext(e, u) == StatusAnswer(attendees'[e], u)

\* The answer of status(e, u) is {confirmed: true, ...} exactly when a
\* record of (u, e) is stored and {confirmed: false} alone otherwise, and the
\* request changes nothing.
StatusReportsRecord(p) ==
    (At(p, "status", "get") /\ StepOf(p)) =>
       \A e \in EventIds, u \in UserIds :
          StatusGet(p, "ok", e, u) =>
             /\ req'[p].status = 200
             /\ req'[p].out.confirmed = (u \in DOMAIN attendees[e])
             /\ u \notin DOMAIN attendees[e] => req'[p].out = [confirmed |-> FALSE]
             /\ <<users, events, comments, attendees>>' = <<users, events, comments, attendees>>

\* After a confirm of u on e status(e, u) is confirmed, after a cancel it is
\* not, and no other step than a confirm or cancel of u on e or the commit
\* of a delete of e changes what status(e, u) answers.
StatusFollowsRequests(p) ==
    /\ (At(p, "confirm", "set") /\ StepOf(p)) =>
          \A e \in EventIds :
             ConfirmSet(p, "ok", e) => StatusNext(e, req[p].caller).confirmed
    /\ (At(p, "cancel", "delete") /\ StepOf(p)) =>
          \A e \in EventIds :
             CancelDelete(p, "ok", e) => ~StatusNext(e, req[p].caller).confirmed
    /\ StepOf(p) =>
          \A e \in EventIds, u \in UserIds :
             StatusNext(e, u) # StatusNow(e, u) =>
                \/ req[p].op \in {"confirm", "cancel"} /\ req[p].caller = u
                \/ At(p, "deleteEvent", "commit") /\ req[p].arg.id = e

\* Once the delete of event e has answered success, status(e, u) is not
\* confirmed for any user u.
StatusClearedByDelete(p) ==
    (At(p, "deleteEvent", "commit") /\ StepOf(p) /\ req'[p].status = 200) =>
       \A u \in UserIds : ~StatusNext(req[p].arg.id, u).confirmed

\* C15: status(e, u) reports confirmed = true exactly when a record of
\* (u, e) is stored and {confirmed: false} alone otherwise; hence after
\* confirm and cancel requests of u on e it reports confirmed if and only if
\* the last of them was a confirm and no delete of e completed afterwards.
C15_StatusFollowsAttendance ==
    [][\A p \in Procs :
         /\ StatusReportsRecord(p)
         /\ StatusFollowsRequests(p)
         /\ StatusClearedByDelete(p)]_vars

\* ---------------------------------------------------------------- rating
\* The comments of a collection that the claim counts: those whose stored
\* rating is neither null nor 0.
Rated(coll) == {k \in DOMAIN coll : coll[k].rating \notin {Null, Num(0)}}

\* C16: the answer of averageRating(e) has count = the number of comments of
\* e whose rating is neither null nor 0 and average = their sum over that
\* count, is {average: 0, count: 0} when there is none, and its average is a
\* number for every set of ratings that addComment and updateComment store.
C16_AverageIsNumber ==
    [][\A p \in Procs :
         (At(p, "rating", "get") /\ StepOf(p)) =>
            \A e \in EventIds :
               RatingGet(p, "ok", e) =>
                  LET out == req'[p].out
                      n == Cardinality(Rated(comments[e])) IN
                  /\ out.count = n
                  /\ n = 0 => out.average = Num(0)
                  /\ out.average # NaN
                  /\ n > 0 => out.average.t = "ratio" /\ out.average.den = n]_vars

\* ------------------------------------------------------------------ C17
\* The fields of the event a write step of PUT /events/:id is about, after
\* a body b: a supplied field takes the supplied value, an absent one and
\* the three creation fields keep theirs.
UpdatedEvent(ev, b) ==
    [ev EXCEPT !.title = IF b[1] = Missing THEN @ ELSE b[1],
               !.date = IF b[2] = Missing THEN @ ELSE b[2],
               !.location = IF b[3] = Missing THEN @ ELSE b[3],
               !.description = IF b[4] = Missing THEN @ ELSE b[4]]

CreationFieldsKept ==
    \A e \in DOMAIN events \cap DOMAIN events' :
        /\ events'[e].creatorUid = events[e].creatorUid
        /\ events'[e].creatorName = events[e].creatorName
        /\ events'[e].createdAt = events[e].createdAt

EventWrittenBy(p) ==
    /\ At(p, "updateEvent", "write")
    /\ StepOf(p)
    /\ req'[p].pc = "read"

\* C17: a successful PUT /events/:id overwrites exactly the fields among
\* title, date, location and description that the body supplies and leaves
\* every other field and every other event as they were; creatorUid,
\* creatorName and createdAt of a stored event never change between its
\* creation and its deletion, whatever event updates and profile updates occur.
C17_PartialUpdateKeepsCreation ==
    [][/\ CreationFieldsKept
       /\ \A p \in Procs : EventWrittenBy(p) =>
            \A b \in UpdateBodies :
               UpdateEventWrite(p, "ok", b[1], b[2], b[3], b[4]) =>
                  /\ DOMAIN events' = DOMAIN events
                  /\ \A e \in DOMAIN events :
                        events'[e] = IF e = req[p].arg.id
                                     THEN UpdatedEvent(events[e], b) ELSE events[e]
       /\ (\E e \in DOMAIN events \cap DOMAIN events' : events'[e] # events[e])
            => \E p \in Procs : EventWrittenBy(p)]_vars

\* An updated event whose title was replaced and whose description was not,
\* still naming its creator as at creation although the creator has since
\* changed username.
C17_Witness ==
    \E e \in DOMAIN events :
        /\ events[e].title = "t2"
        /\ events[e].description = "x1"
        /\ Exists(users, events[e].creatorUid)
        /\ users[events[e].creatorUid].username = "eve"
        /\ events[e].creatorName # "eve"
        /\ events[e].createdAt < now
        /\ \E p \in Procs : Answered(p, "updateEvent", 200)

\* ------------------------------------------------------------------ C18
\* Two letters that differ at most in case.
SameLetter(a, b) == a = b \/ {a, b} = {"A", "a"} \/ {a, b} = {"B", "b"}

\* q occurs in text as a contiguous run of letters, case disregarded.
ContainsIgnoringCase(text, q) ==
    \E i \in 0..(Len(text) - Len(q)) :
        \A k \in 1..Len(q) : SameLetter(text[i + k], q[k])

Found(q) ==
    {e \in DOMAIN events :
        ContainsIgnoringCase(events[e].title, q)
            \/ ContainsIgnoringCase(events[e].description, q)}

\* C18: a search with a non-empty q answers exactly the stored events whose
\* title or description contains q, case disregarded, and changes nothing in
\* the store; an empty or missing q is answered 400.
C18_SearchExact ==
    [][\A p \in Procs :
        /\ (Free(p) /\ req'[p].op = "search") =>
              \A query \in Queries : SearchStart(p, query) =>
                 /\ UNCHANGED store
                 /\ (~query.present \/ query.s = <<>>) <=>
                       (req'[p].pc = "done" /\ req'[p].status = 400)
                 /\ (query.present /\ query.s # <<>>) =>
                       (req'[p].pc = "get" /\ req'[p].arg.query = query)
        /\ (At(p, "search", "get") /\ StepOf(p)) =>
              /\ UNCHANGED store
              /\ req'[p].pc = "done"
              /\ req'[p].status \in {200, 500}
              /\ req'[p].status = 200 =>
                    /\ DOMAIN req'[p].out = Found(req[p].arg.query.s)
                    /\ \A e \in DOMAIN req'[p].out : req'[p].out[e] = events[e]]_vars

\* A search whose query differs in case from the text it is found in has
\* answered some of the stored events and not the others.
C18_Witness ==
    \E p \in Procs :
        /\ Answered(p, "search", 200)
        /\ DOMAIN req[p].out # {}
        /\ DOMAIN req[p].out # DOMAIN events
        /\ DOMAIN req[p].out \subseteq DOMAIN events
        /\ \E e \in DOMAIN req[p].out :
              /\ ~includes(events[e].title, <<"a", "B">>)
              /\ ~includes(events[e].description, <<"a", "B">>)
              /\ DOMAIN req[p].out = Found(<<"a", "B">>)
        /\ \E q \in Procs : Answered(q, "search", 400)

\* ------------------------------------------------------------------ C19
\* C19: in every reachable state, every comment and every attendance record
\* stored under an event id has an existing event document as its parent,
\* whether that id was never created or was deleted.
C19_ChildrenHaveParent ==
    \A e \in EventIds :
        (DOMAIN comments[e] # {} \/ DOMAIN attendees[e] # {}) => Exists(events, e)

\* ------------------------------------------------------------------ C20
\* C20: the event stored by a create request carries as creatorUid the uid of
\* the token the request was authenticated with, and no step changes the
\* creatorUid of a stored event.
C20_CreatorIsCaller ==
    [][\A p \in Procs :
        (At(p, "createEvent", "add") /\ StepOf(p)) =>
            \A e \in DOMAIN events' :
                IF e \in DOMAIN events
                THEN events'[e].creatorUid = events[e].creatorUid
                ELSE events'[e].creatorUid = req[p].caller]_vars

\* ------------------------------------------------------------------ C21
\* The event ids handed out so far: of the event stored at the start and of
\* the events added since.
HandedOut == {MaxEvents + 1} \cup (1..nextEvent)

\* C21: every stored event has an id that was handed out, and an event
\* document appears only under an id never handed out before (the add of a
\* create request); so an id whose event was deleted holds no event in any
\* later state, whatever updates, comments, confirmations and creates run
\* beside the delete, and a delete that answers success leaves its event absent.
C21_NoResurrection ==
    /\ [](DOMAIN events \subseteq HandedOut)
    /\ [][/\ \A e \in LifecycleEventIds :
                (~Exists(events, e) /\ Exists(events', e)) =>
                    /\ e \notin HandedOut
                    /\ \E p \in Procs : At(p, "createEvent", "add") /\ StepOf(p)
          /\ \A p \in Procs :
                (At(p, "deleteEvent", "commit") /\ StepOf(p) /\ req'[p].status = 200) =>
                    ~Exists(events', req[p].arg.id)]_vars

\* The stored event was deleted, an update of it that had passed its
\* authorization then failed at its write, and an event created meanwhile is
\* stored under another id.
C21_Witness ==
    \E p, q \in Procs :
        /\ Answered(p, "deleteEvent", 200) /\ req[p].out.id = MaxEvents + 1
        /\ Answered(q, "updateEvent", 500)
        /\ ~Exists(events, MaxEvents + 1)
        /\ Exists(events, 1)
        /\ DOMAIN comments[MaxEvents + 1] # {}
        /\ DOMAIN attendees[MaxEvents + 1] # {}

\* ------------------------------------------------------------------ C22
\* No stored user has role admin.
NoAdmin(coll) == \A u \in DOMAIN coll : coll[u].role # "admin"

\* C22: from a state in which no user has role admin, no step of any request
\* leads to a state in which some user has it, and no make-admin request is
\* then past its admin check; so a store that starts without admins never
\* holds one.
C22_NoAdminFromNone ==
    /\ [](NoAdmin(users) => \A p \in Procs : ~At(p, "makeAdmin", "write"))
    /\ [][NoAdmin(users) => NoAdmin(users')]_vars

\* On a store without admins a user has registered, changed their username
\* and password, and their make-admin requests were refused.
C22_Witness ==
    /\ NoAdmin(users)
    /\ Cardinality(DOMAIN users) = MaxUsers
    /\ \E u \in DOMAIN users : users[u].username = "bob" /\ users[u].passwordHash = Hash("pw1")
    /\ \A p \in Procs : Answered(p, "makeAdmin", 403) /\ req[p].caller # 1


====
